---- MODULE Spec2Model ----
(***************************************************************************)
(* State-machine model of the App component (src/App.tsx): the in-memory   *)
(* project store, the autosave effect with its debounce timer, the         *)
(* localStorage persistence and the generate / continue / rewrite calls.   *)
(*                                                                         *)
(* One action is one run of the browser event loop: an event handler, a   *)
(* timer callback or the continuation of an awaited call, together with    *)
(* the React render and the effects that the handler's state updates       *)
(* cause.  Chapter objects are mutated in place by the code              *)
(* (chs[i].content = val), so they live in a heap and project objects      *)
(* hold chapter addresses; project objects, chapter arrays and settings    *)
(* objects are only ever replaced, so they are plain values.               *)
(***************************************************************************)
EXTENDS Naturals, Integers, Sequences, FiniteSets, TLC

\* ------------------------------------------------------------------ bounds
MaxProjects == 2        \* project ids that Date.now() hands out in a run
MaxChapters == 2        \* chapters per project
MaxAddr == 4            \* live chapter objects
MaxCosmetic == 1        \* pending setTimeout(... 3000) callbacks of a kind
MaxText == 1            \* distinct non-empty texts a user can type
MaxLen == 3             \* tokens of a chapter's content
MaxSpeech == 2          \* generateSpeech calls outstanding at a time
MaxSources == 2         \* audio source nodes created in a run

\* ------------------------------------------------------------------ values
NONE == [none |-> TRUE]   \* null, or an absent object-valued key
UNDEF == "undefined"      \* an absent string-valued key
FREE == [free |-> TRUE]   \* heap cell that holds no live object
NoBaseline == [empty |-> TRUE]   \* the initial "" of lastSavedRef

\* localStorage.getItem(STORAGE_KEY): null, a string JSON.parse rejects, a
\* JSON value that is not an array, or a serialized array of projects
Missing == [kind |-> "missing"]
Corrupt == [kind |-> "corrupt"]
NotArray == [kind |-> "notarray"]
Stored(items) == [kind |-> "array", items |-> items]

SP == " "               \* a whitespace character
GT == ">"               \* the last character of a closing tag such as </p>
BR == "<br><br>"        \* the separator handleContinue inserts

Word(n) == "w" \o ToString(n)
Reply(n) == "r" \o ToString(n)

\* chapter contents the editor can report, and texts the service can return
UserContents == {<<>>} \cup {<<Word(n)>> : n \in 1..MaxText}
ResultTexts == {<<>>} \cup {<<Reply(n)>> : n \in 1..MaxText}
UserTitles == {""} \cup {Word(n) : n \in 1..MaxText}

Addr == 1..MaxAddr
SourceIds == 1..MaxSources

DEFAULT_SETTINGS ==
  [creativity |-> 85, length |-> "Long",
   tone |-> "Passionate and Descriptive", customSystemPrompt |-> ""]

NewProjectTitle == "New Novel"
ChapterTitle(n) == "Chapter " \o ToString(n)

\* the chapter object literal of createNewProject / addNewChapter
NewChapter(n) ==
  [id |-> n, title |-> ChapterTitle(n), content |-> <<>>,
   genre |-> UNDEF, maturityLevel |-> UNDEF, languageStyle |-> UNDEF,
   settings |-> NONE]

\* the project object literal of createNewProject; chs are chapter addresses
NewProject(now, chs) ==
  [id |-> now, title |-> NewProjectTitle, description |-> "",
   genre |-> "Romance", maturityLevel |-> "Adult",
   languageStyle |-> "Modern/Colloquial", settings |-> DEFAULT_SETTINGS,
   createdAt |-> now, chapters |-> chs]

VARIABLES
  storage,             \* localStorage[STORAGE_KEY]
  clock,               \* Date.now(), counted in project creations
  mounted,             \* the load effect has run
  crashed,             \* an exception left a render: the tree is unmounted
  heap,                \* chapter objects by address
  savedProjects,       \* useState: sequence of project objects
  activeProject,       \* useState: project object or NONE
  activeAlias,         \* k when activeProject === savedProjects[k], else 0
  activeChapterIndex,  \* useState (0-based as in the code)
  isGenerating,        \* useState
  isContinuing,        \* useState
  error,               \* useState: NONE or [msg, type]
  saveStatus,          \* useState
  lastSavedRef,        \* useRef: serialized project or ""
  autoSaveTimerRef,    \* useRef: id of the last timer armed, 0 for null
  timers,              \* pending autosave timeouts: [id, proj]
  hasCleanup,          \* the last run of the autosave effect returned a cleanup
  idleTimers,          \* pending setTimeout(() => setSaveStatus('idle'))
  errorTimers,         \* pending setTimeout(() => setError(null))
  saving,              \* handleSaveProject between setSaveStatus('saving')
                       \* and its setSavedProjects updater: [proj, isAuto]
  pending,             \* outstanding service calls: [kind, proj, idx]
  isPlaying,           \* Editor useState
  currentSourceRef,    \* Editor useRef: the source started last, 0 for null
  speechCalls,         \* generateSpeech calls that have not returned
  sources              \* audio source nodes: none, playing, ended, done

vars == <<storage, clock, mounted, crashed, heap, savedProjects,
          activeProject, activeAlias, activeChapterIndex, isGenerating,
          isContinuing, error, saveStatus, lastSavedRef, autoSaveTimerRef,
          timers, hasCleanup, idleTimers, errorTimers, saving, pending,
          isPlaying, currentSourceRef, speechCalls, sources>>

\* the state of the Editor's playback
audio == <<isPlaying, currentSourceRef, speechCalls, sources>>

\* ------------------------------------------------------------ serialization
\* a serialization that leaves the settings key out
SerializeWithoutSettings(c) == [c EXCEPT !.settings = NONE]

\* JSON.stringify of a chapter object: keys whose value is undefined are
\* dropped, which the model renders as the field being UNDEF or NONE
SerializeChapter(c) == c

\* JSON.stringify(project): the chapter addresses are followed at the time
\* of the call, the result is a value that later heap writes cannot change
Serialize(p, hp) ==
  [id |-> p.id, title |-> p.title, description |-> p.description,
   genre |-> p.genre, maturityLevel |-> p.maturityLevel,
   languageStyle |-> p.languageStyle, settings |-> p.settings,
   createdAt |-> p.createdAt,
   chapters |-> [i \in 1..Len(p.chapters) |-> SerializeChapter(hp[p.chapters[i]])]]

SerializeAll(ps, hp) == [k \in 1..Len(ps) |-> Serialize(ps[k], hp)]

\* ------------------------------------------------------------------- heap
FreeAddrs(hp) == {a \in Addr : hp[a] = FREE}

RECURSIVE SetToSeq(_)
SetToSeq(S) ==
  IF S = {} THEN <<>>
  ELSE LET m == CHOOSE x \in S : \A y \in S : x <= y
       IN <<m>> \o SetToSeq(S \ {m})

\* the n lowest free addresses, in order
AllocAddrs(hp, n) == SubSeq(SetToSeq(FreeAddrs(hp)), 1, n)

CanAlloc(hp, n) == Cardinality(FreeAddrs(hp)) >= n

ChapterAddrs(p) == IF p = NONE THEN {} ELSE {p.chapters[i] : i \in 1..Len(p.chapters)}

\* addresses some reference of the program can still reach
Roots(sp, ap, tm, sv, pd) ==
  UNION {ChapterAddrs(sp[k]) : k \in 1..Len(sp)}
  \cup ChapterAddrs(ap)
  \cup UNION {ChapterAddrs(t.proj) : t \in tm}
  \cup (IF sv = NONE THEN {} ELSE ChapterAddrs(sv.proj))
  \cup UNION {ChapterAddrs(c.proj) : c \in pd}

\* garbage collection: unreachable chapter objects leave the heap
Collect(hp, live) == [a \in Addr |-> IF a \in live THEN hp[a] ELSE FREE]


\* ------------------------------------------------------------------ timers
\* the timer is left running
CancelNothing(tm, ref) == tm

\* if (autoSaveTimerRef.current) clearTimeout(autoSaveTimerRef.current)
CancelPending(tm, ref) == {t \in tm : t.id # ref}

\* the handle setTimeout returns: a non-zero id that no pending timer has
\* and that differs from the handle returned last
TimerIdFree(n, tm, ref) == n # ref /\ \A t \in tm : t.id # n

NewTimerId(tm, ref) ==
  CHOOSE n \in 1..(Cardinality(tm) + 2) :
    /\ TimerIdFree(n, tm, ref)
    /\ \A m \in 1..(n - 1) : ~TimerIdFree(m, tm, ref)

\* the effect without the comparison against lastSavedRef.current: every
\* new activeProject object marks the project unsaved and arms the timer
AutoSaveEffectNoBaseline(changed, ap, hp, baseline, st, tm, ref, cl) ==
  IF ~changed
  THEN [saveStatus |-> st, timers |-> tm, ref |-> ref, hasCleanup |-> cl]
  ELSE LET tm1 == IF cl THEN CancelPending(tm, ref) ELSE tm
       IN IF ap = NONE
          THEN [saveStatus |-> st, timers |-> tm1, ref |-> ref,
                hasCleanup |-> FALSE]
          ELSE LET tm2 == CancelPending(tm1, ref)
                   id == NewTimerId(tm2, ref)
               IN [saveStatus |-> "unsaved",
                   timers |-> tm2 \cup {[id |-> id, proj |-> ap]},
                   ref |-> id, hasCleanup |-> TRUE]

\* The auto-save effect, deps [activeProject, handleSaveProject].  It runs
\* after a render in which activeProject is a different object (changed);
\* React first runs the cleanup the previous run returned, if it returned one.
\* The timer's callback closes over that render's handleSaveProject and so
\* over that render's activeProject.
AutoSaveEffect(changed, ap, hp, baseline, st, tm, ref, cl) ==
  IF ~changed
  THEN [saveStatus |-> st, timers |-> tm, ref |-> ref, hasCleanup |-> cl]
  ELSE LET tm1 == IF cl THEN CancelPending(tm, ref) ELSE tm
       IN IF ap = NONE \/ Serialize(ap, hp) = baseline
          THEN [saveStatus |-> st, timers |-> tm1, ref |-> ref,
                hasCleanup |-> FALSE]
          ELSE LET tm2 == CancelPending(tm1, ref)
                   id == NewTimerId(tm2, ref)
               IN [saveStatus |-> "unsaved",
                   timers |-> tm2 \cup {[id |-> id, proj |-> ap]},
                   ref |-> id, hasCleanup |-> TRUE]

\* setActiveProject(ap) followed by the render and the auto-save effect;
\* hp and baseline are the heap and lastSavedRef.current the handler left
SetActive(ap, changed, hp, baseline) ==
  LET e == AutoSaveEffect(changed, ap, hp, baseline, saveStatus, timers,
                          autoSaveTimerRef, hasCleanup)
  IN /\ activeProject' = ap
     /\ lastSavedRef' = baseline
     /\ saveStatus' = e.saveStatus
     /\ timers' = e.timers
     /\ autoSaveTimerRef' = e.ref
     /\ hasCleanup' = e.hasCleanup

\* the heap after the step, without the objects nothing refers to any more
SetHeap(hp) ==
  heap' = Collect(hp, Roots(savedProjects', activeProject', timers',
                            saving', pending'))

\* an event can be handled: mounted, not torn down, no handler half-way
Ready == mounted /\ ~crashed /\ saving = NONE

\* ------------------------------------------------------------------- load
RECURSIVE ChaptersBefore(_, _)
ChaptersBefore(items, k) ==
  IF k <= 1 THEN 0
  ELSE ChaptersBefore(items, k - 1) + Len(items[k - 1].chapters)

\* JSON.parse builds fresh objects: chapter i of project k gets its own cell
ParsedProject(items, k) ==
  [items[k] EXCEPT !.chapters =
     [i \in 1..Len(items[k].chapters) |-> ChaptersBefore(items, k) + i]]

ParsedHeap(items) ==
  [a \in Addr |->
     IF \E k \in 1..Len(items) :
          a - ChaptersBefore(items, k) \in 1..Len(items[k].chapters)
     THEN LET k == CHOOSE k \in 1..Len(items) :
                     a - ChaptersBefore(items, k) \in 1..Len(items[k].chapters)
          IN items[k].chapters[a - ChaptersBefore(items, k)]
     ELSE FREE]

\* a project as an earlier session stored it
StoredSample(id) ==
  [id |-> id, title |-> NewProjectTitle, description |-> "",
   genre |-> "Romance", maturityLevel |-> "Adult",
   languageStyle |-> "Modern/Colloquial", settings |-> DEFAULT_SETTINGS,
   createdAt |-> id,
   chapters |-> <<[NewChapter(1) EXCEPT !.content = <<Word(1)>>]>>]

InitialStorages ==
  {Missing, Corrupt, NotArray, Stored(<<>>), Stored(<<StoredSample(1)>>)}

\* a project with several chapters as an earlier session stored it
LongSample ==
  [StoredSample(1) EXCEPT
     !.chapters = [i \in 1..(MaxChapters + 1) |->
                     [NewChapter(i) EXCEPT
                        !.content = IF i = 1 THEN <<Word(1)>> ELSE <<>>]]]

\* a stored project whose chapter carries the three string overrides
OverriddenSample ==
  [StoredSample(1) EXCEPT !.chapters[1].genre = "Thriller",
                          !.chapters[1].maturityLevel = "General",
                          !.chapters[1].languageStyle = "Sadhu"]

\* a stored project whose first chapter has text between whitespace and
\* whose second chapter holds markup only
SpacedSample ==
  [StoredSample(1) EXCEPT
     !.chapters = <<[NewChapter(1) EXCEPT !.content = <<SP, Word(1), SP>>],
                    [NewChapter(2) EXCEPT !.content = <<BR>>]>>]

\* the state of the first render, over the given stored values
InitWith(stores) ==
  /\ storage \in stores
  /\ clock = IF storage.kind = "array" THEN Len(storage.items) ELSE 0
  /\ mounted = FALSE
  /\ crashed = FALSE
  /\ heap = [a \in Addr |-> FREE]
  /\ savedProjects = <<>>
  /\ activeProject = NONE
  /\ activeAlias = 0
  /\ activeChapterIndex = 0
  /\ isGenerating = FALSE
  /\ isContinuing = FALSE
  /\ error = NONE
  /\ saveStatus = "idle"
  /\ lastSavedRef = NoBaseline
  /\ autoSaveTimerRef = 0
  /\ timers = {}
  /\ hasCleanup = FALSE
  /\ idleTimers = 0
  /\ errorTimers = 0
  /\ saving = NONE
  /\ pending = {}
  /\ isPlaying = FALSE
  /\ currentSourceRef = 0
  /\ speechCalls = 0
  /\ sources = [n \in SourceIds |-> "none"]

Init == InitWith(InitialStorages)

\* a session that starts on a stored project of several chapters
InitChap == InitWith({Stored(<<LongSample>>)})

\* the exception of JSON.parse leaves the effect
RestoreUncaught(st) == st.kind = "corrupt"

\* try { JSON.parse ... } catch (e) { console.error(...) }: whatever the
\* stored string is, no exception leaves the effect
RestoreThrows(st) == FALSE

\* a session that starts on a stored project with whitespace in its text
InitCont == InitWith({Stored(<<SpacedSample>>)})

\* a session that starts on a stored project with chapter overrides
InitStore == InitWith({Stored(<<OverriddenSample>>)})

\* the load effect of the first render
Mount ==
  /\ ~mounted
  /\ UNCHANGED audio
  /\ mounted' = TRUE
  /\ crashed' = RestoreThrows(storage)
  /\ UNCHANGED <<storage, clock, activeChapterIndex, isGenerating,
                 isContinuing, error, idleTimers, errorTimers, saving, pending>>
  /\ IF storage.kind = "array"
     THEN /\ savedProjects' = [k \in 1..Len(storage.items) |->
                                 ParsedProject(storage.items, k)]
          /\ IF Len(storage.items) > 0
             THEN /\ activeAlias' = 1
                  /\ SetActive(ParsedProject(storage.items, 1), TRUE,
                               ParsedHeap(storage.items), lastSavedRef)
             ELSE /\ activeAlias' = 0
                  /\ SetActive(NONE, FALSE, heap, lastSavedRef)
          /\ SetHeap(ParsedHeap(storage.items))
     ELSE /\ savedProjects' = <<>>
          /\ activeAlias' = 0
          /\ SetActive(NONE, FALSE, heap, lastSavedRef)
          /\ SetHeap(heap)

\* the page is loaded again: every useState and useRef starts over, the
\* timers and calls of the old page are gone, localStorage stays
Reload ==
  /\ mounted
  /\ saving = NONE
  /\ storage' = storage
  /\ clock' = clock
  /\ mounted' = FALSE
  /\ crashed' = FALSE
  /\ heap' = [a \in Addr |-> FREE]
  /\ savedProjects' = <<>>
  /\ activeProject' = NONE
  /\ activeAlias' = 0
  /\ activeChapterIndex' = 0
  /\ isGenerating' = FALSE
  /\ isContinuing' = FALSE
  /\ error' = NONE
  /\ saveStatus' = "idle"
  /\ lastSavedRef' = NoBaseline
  /\ autoSaveTimerRef' = 0
  /\ timers' = {}
  /\ hasCleanup' = FALSE
  /\ idleTimers' = 0
  /\ errorTimers' = 0
  /\ isPlaying' = FALSE
  /\ currentSourceRef' = 0
  /\ speechCalls' = 0
  /\ sources' = [n \in SourceIds |-> "none"]
  /\ saving' = NONE
  /\ pending' = {}

\* ------------------------------------------------------------------ edits
\* project title input: setActiveProject({...activeProject, title})
EditTitle ==
  /\ Ready
  /\ UNCHANGED audio
  /\ activeProject # NONE
  /\ \E v \in UserTitles \ {activeProject.title} :
       SetActive([activeProject EXCEPT !.title = v], TRUE, heap, lastSavedRef)
  /\ activeAlias' = 0
  /\ UNCHANGED <<storage, clock, mounted, crashed, savedProjects,
                 activeChapterIndex, isGenerating, isContinuing, error,
                 idleTimers, errorTimers, saving, pending>>
  /\ SetHeap(heap)

\* Editor onChange with a changed innerHTML: the chapter object is written
\* in place, then a new project object with a copy of the chapter array
\* becomes active
EditContent ==
  /\ Ready
  /\ UNCHANGED audio
  /\ activeProject # NONE
  /\ activeChapterIndex < Len(activeProject.chapters)
  /\ \E v \in UserContents :
       LET a == activeProject.chapters[activeChapterIndex + 1]
           hp == [heap EXCEPT ![a].content = v]
       IN /\ v # heap[a].content
          /\ SetActive(activeProject, TRUE, hp, lastSavedRef)
          /\ activeAlias' = 0
          /\ UNCHANGED <<storage, clock, mounted, crashed, savedProjects,
                         activeChapterIndex, isGenerating, isContinuing,
                         error, idleTimers, errorTimers, saving, pending>>
          /\ SetHeap(hp)

\* ------------------------------------------------------------------- save
Min(a, b) == IF a <= b THEN a ELSE b

\* prev.findIndex(p => p.id === activeProject.id), 1-based, 0 for -1
FindIndex(prev, id) ==
  IF \E k \in 1..Len(prev) : prev[k].id = id
  THEN CHOOSE k \in 1..Len(prev) :
         prev[k].id = id /\ \A j \in 1..(k - 1) : prev[j].id # id
  ELSE 0

\* an updater that never adds a project to the collection
ReplaceOnly(prev, proj) ==
  IF FindIndex(prev, proj.id) > 0
  THEN [prev EXCEPT ![FindIndex(prev, proj.id)] = proj]
  ELSE prev

\* the collection the updater of handleSaveProject returns
Merge(prev, proj) ==
  IF FindIndex(prev, proj.id) > 0
  THEN [prev EXCEPT ![FindIndex(prev, proj.id)] = proj]
  ELSE <<proj>> \o prev

\* the baseline assigned before the write is known to have succeeded
BaselineBeforeWrite(ok, proj, hp, old) == Serialize(proj, hp)

\* lastSavedRef.current after the updater: the assignment follows
\* localStorage.setItem and is skipped when setItem throws
BaselineAfterSave(ok, proj, hp, old) ==
  IF ok THEN Serialize(proj, hp) ELSE old

\* saveStatus after the updater: setSaveStatus('saved') follows setItem
StatusAfterSave(ok) == IF ok THEN "saved" ELSE "saving"

SavedMsg == [msg |-> "saved successfully", type |-> "success"]

\* handleSaveProject up to the call of setSavedProjects
BeginSave(proj, isAuto) ==
  /\ saveStatus' = "saving"
  /\ saving' = [proj |-> proj, isAuto |-> isAuto]

\* the save button: handleSaveProject(false)
ManualSave ==
  /\ Ready
  /\ UNCHANGED audio
  /\ activeProject # NONE
  /\ BeginSave(activeProject, FALSE)
  /\ UNCHANGED <<storage, clock, mounted, crashed, savedProjects,
                 activeProject, activeAlias, activeChapterIndex, isGenerating,
                 isContinuing, error, lastSavedRef, autoSaveTimerRef, timers,
                 hasCleanup, idleTimers, errorTimers, pending>>
  /\ SetHeap(heap)

\* the debounce timeout elapses: handleSaveProject(true) of the render that
\* armed the timer
AutoSaveFire ==
  /\ Ready
  /\ UNCHANGED audio
  /\ \E t \in timers :
       /\ timers' = timers \ {t}
       /\ BeginSave(t.proj, TRUE)
  /\ UNCHANGED <<storage, clock, mounted, crashed, savedProjects,
                 activeProject, activeAlias, activeChapterIndex, isGenerating,
                 isContinuing, error, lastSavedRef, autoSaveTimerRef,
                 hasCleanup, idleTimers, errorTimers, pending>>
  /\ SetHeap(heap)

\* The updater passed to setSavedProjects, run by the render that follows.
\* localStorage.setItem either succeeds or throws (quota, disabled storage);
\* nothing catches the exception, it leaves the render and React unmounts
\* the tree.
SaveUpdaterWith(ok) ==
  /\ mounted /\ ~crashed /\ saving # NONE
  /\ UNCHANGED audio
  /\ LET proj == saving.proj
        idx == FindIndex(savedProjects, proj.id)
        updated == Merge(savedProjects, proj)
     IN /\ storage' = IF ok THEN Stored(SerializeAll(updated, heap))
                      ELSE storage
        /\ lastSavedRef' = BaselineAfterSave(ok, proj, heap, lastSavedRef)
        /\ saveStatus' = StatusAfterSave(ok)
        /\ crashed' = ~ok
        /\ savedProjects' = IF ok THEN updated ELSE savedProjects
        /\ activeAlias' =
             IF ~ok THEN activeAlias
             ELSE IF idx = 0
                  THEN IF proj = activeProject THEN 1
                       ELSE IF activeAlias > 0 THEN activeAlias + 1 ELSE 0
                  ELSE IF activeAlias = idx THEN 0 ELSE activeAlias
        /\ error' = IF ok /\ ~saving.isAuto THEN SavedMsg ELSE error
        /\ errorTimers' = IF ok /\ ~saving.isAuto
                          THEN Min(errorTimers + 1, MaxCosmetic)
                          ELSE errorTimers
        /\ idleTimers' = IF ok THEN Min(idleTimers + 1, MaxCosmetic)
                         ELSE idleTimers
  /\ saving' = NONE
  /\ UNCHANGED <<clock, mounted, activeProject, activeChapterIndex,
              isGenerating, isContinuing, autoSaveTimerRef, timers,
              hasCleanup, pending>>
  /\ SetHeap(heap)

SaveUpdater == \E ok \in BOOLEAN : SaveUpdaterWith(ok)

\* the updater when localStorage.setItem returns
SaveSucceeds == SaveUpdaterWith(TRUE)

\* setTimeout(() => setSaveStatus('idle'), 3000)
IdleFire ==
  /\ Ready
  /\ UNCHANGED audio
  /\ idleTimers > 0
  /\ idleTimers' = idleTimers - 1
  /\ saveStatus' = "idle"
  /\ UNCHANGED <<storage, clock, mounted, crashed, heap, savedProjects,
                 activeProject, activeAlias, activeChapterIndex, isGenerating,
                 isContinuing, error, lastSavedRef, autoSaveTimerRef, timers,
                 hasCleanup, errorTimers, saving, pending>>

\* setTimeout(() => setError(null), 3000)
ErrorClearFire ==
  /\ Ready
  /\ UNCHANGED audio
  /\ errorTimers > 0
  /\ errorTimers' = errorTimers - 1
  /\ error' = NONE
  /\ UNCHANGED <<storage, clock, mounted, crashed, heap, savedProjects,
                 activeProject, activeAlias, activeChapterIndex, isGenerating,
                 isContinuing, saveStatus, lastSavedRef, autoSaveTimerRef,
                 timers, hasCleanup, idleTimers, saving, pending>>

\* ---------------------------------------------------------------- projects
\* click on a library entry
LoadProject ==
  /\ Ready
  /\ UNCHANGED audio
  /\ \E k \in 1..Len(savedProjects) :
       /\ SetActive(savedProjects[k], activeAlias # k, heap,
                    Serialize(savedProjects[k], heap))
       /\ activeAlias' = k
  /\ activeChapterIndex' = 0
  /\ UNCHANGED <<storage, clock, mounted, crashed, savedProjects,
                 isGenerating, isContinuing, error, idleTimers, errorTimers,
                 saving, pending>>
  /\ SetHeap(heap)

CreateNewProject ==
  /\ Ready
  /\ UNCHANGED audio
  /\ clock < MaxProjects
  /\ CanAlloc(heap, 1)
  /\ LET a == AllocAddrs(heap, 1)[1]
         hp == [heap EXCEPT ![a] = NewChapter(1)]
         np == NewProject(clock + 1, <<a>>)
     IN /\ SetActive(np, TRUE, hp, Serialize(np, hp))
        /\ clock' = clock + 1
        /\ activeAlias' = 0
        /\ activeChapterIndex' = 0
        /\ UNCHANGED <<storage, mounted, crashed, savedProjects,
                       isGenerating, isContinuing, error, idleTimers,
                       errorTimers, saving, pending>>
        /\ SetHeap(hp)

\* savedProjects.filter(p => p.id !== id), written to storage at once
DeleteProject ==
  /\ Ready
  /\ UNCHANGED audio
  /\ \E k \in 1..Len(savedProjects) :
       LET id == savedProjects[k].id
           updated == SelectSeq(savedProjects, LAMBDA p : p.id # id)
           gone == activeProject # NONE /\ activeProject.id = id
       IN /\ storage' = Stored(SerializeAll(updated, heap))
          /\ savedProjects' = updated
          /\ SetActive(IF gone THEN NONE ELSE activeProject, gone, heap,
                       lastSavedRef)
          /\ activeAlias' =
               IF gone \/ activeAlias = 0 THEN 0
               ELSE activeAlias
                    - Cardinality({j \in 1..(activeAlias - 1) :
                                     savedProjects[j].id = id})
  /\ UNCHANGED <<clock, mounted, crashed, activeChapterIndex, isGenerating,
                 isContinuing, error, idleTimers, errorTimers, saving, pending>>
  /\ SetHeap(heap)

\* ---------------------------------------------------------------- chapters
\* "+ new" in the chapter list
AddNewChapter ==
  /\ Ready
  /\ UNCHANGED audio
  /\ activeProject # NONE
  /\ Len(activeProject.chapters) < MaxChapters
  /\ CanAlloc(heap, 1)
  /\ LET a == AllocAddrs(heap, 1)[1]
         n == Len(activeProject.chapters) + 1
         hp == [heap EXCEPT ![a] = NewChapter(n)]
         up == [activeProject EXCEPT !.chapters = Append(@, a)]
     IN /\ SetActive(up, TRUE, hp, lastSavedRef)
        /\ activeChapterIndex' = Len(up.chapters) - 1
        /\ activeAlias' = 0
        /\ UNCHANGED <<storage, clock, mounted, crashed, savedProjects,
                       isGenerating, isContinuing, error, idleTimers,
                       errorTimers, saving, pending>>
        /\ SetHeap(hp)

\* the sequence without its element at 0-based position idx
RemoveAt(seq, idx) ==
  [i \in 1..(Len(seq) - 1) |-> IF i <= idx THEN seq[i] ELSE seq[i + 1]]

\* the index left where it is
KeepIndex(idx, active) == active

\* activeChapterIndex after deleteChapter(idx)
NextIndex(idx, active) ==
  IF idx <= active
  THEN (IF active - 1 > 0 THEN active - 1 ELSE 0)
  ELSE active

LastChapterMsg == [msg |-> "at least one chapter is required", type |-> "error"]

\* the test that lets the only chapter go as well
NoChapter(p) == Len(p.chapters) < 1

\* activeProject.chapters.length <= 1
OnlyChapter(p) == Len(p.chapters) <= 1

\* deleteChapter(idx, e), the confirm dialog answered with OK
DeleteChapterAt(idx) ==
  /\ Ready
  /\ UNCHANGED audio
  /\ activeProject # NONE
  /\ idx \in 0..(Len(activeProject.chapters) - 1)
  /\ IF OnlyChapter(activeProject)
     THEN /\ error' = LastChapterMsg
          /\ UNCHANGED <<storage, clock, mounted, crashed, heap,
                         savedProjects, activeProject, activeAlias,
                         activeChapterIndex, isGenerating, isContinuing,
                         saveStatus, lastSavedRef, autoSaveTimerRef, timers,
                         hasCleanup, idleTimers, errorTimers, saving, pending>>
     ELSE /\ SetActive([activeProject EXCEPT !.chapters = RemoveAt(@, idx)],
                       TRUE, heap, lastSavedRef)
          /\ activeChapterIndex' = NextIndex(idx, activeChapterIndex)
          /\ activeAlias' = 0
          /\ UNCHANGED <<storage, clock, mounted, crashed, savedProjects,
                         isGenerating, isContinuing, error, idleTimers,
                         errorTimers, saving, pending>>
          /\ SetHeap(heap)

\* the trash icon of a chapter of the list
DeleteChapter ==
  \E idx \in 0..(MaxChapters + 1) : DeleteChapterAt(idx)

\* click on a chapter of the list: setActiveChapterIndex(idx)
SelectChapter ==
  /\ Ready
  /\ UNCHANGED audio
  /\ activeProject # NONE
  /\ \E idx \in 0..(Len(activeProject.chapters) - 1) :
       /\ idx # activeChapterIndex
       /\ activeChapterIndex' = idx
  /\ UNCHANGED <<storage, clock, mounted, crashed, heap, savedProjects,
                 activeProject, activeAlias, isGenerating, isContinuing, error,
                 saveStatus, lastSavedRef, autoSaveTimerRef, timers,
                 hasCleanup, idleTimers, errorTimers, saving, pending>>

\* the chapter object activeProject.chapters[activeChapterIndex], or NONE
CurrentChapter(ap, idx, hp) ==
  IF ap # NONE /\ idx < Len(ap.chapters) THEN hp[ap.chapters[idx + 1]] ELSE NONE

\* ---------------------------------------------------------------- overrides
\* the chapter keys a chapter-level select of the settings dialog writes
OverrideKeys == {"genre", "maturityLevel", "languageStyle"}

\* the option a user picks in a chapter-level select: the one that is not
\* the value of a new project
OverrideValues(key) ==
  IF key = "genre" THEN {"Thriller"}
  ELSE IF key = "maturityLevel" THEN {"General"}
  ELSE {"Sadhu"}

\* the options a user picks in the project-level genre select
ProjectGenres == {"Romance", "Thriller"}

\* the settings fields a user moves, and the values given to them
SettingKeys == {"creativity", "tone"}

SettingValues(key) ==
  IF key = "creativity" THEN {50, 85}
  ELSE {"Passionate and Descriptive", "Dark and Thrilling"}

\* JavaScript truthiness of an optional string
Truthy(s) == s # UNDEF /\ s # ""

\* the fallback always taken: the chapter's own value is never read
ProjectValue(a, b) == b

\* a || b for optional strings
Or(a, b) == IF Truthy(a) THEN a ELSE b

\* the project's settings object, whatever the chapter holds
ProjectObject(a, b) == b

\* a || b for optional objects: every object is truthy
OrObject(a, b) == IF a # NONE THEN a ELSE b

\* a ?? b for optional strings, the fallback of the dialog's selects
Nullish(a, b) == IF a # UNDEF THEN a ELSE b

\* the genre, settings, maturity and language a handler computes for the
\* chapter object ch of project ap
GenerationArgs(ap, ch) ==
  [genre |-> Or(ch.genre, ap.genre),
   settings |-> OrObject(ch.settings, ap.settings),
   maturity |-> Or(ch.maturityLevel, ap.maturityLevel),
   language |-> Or(ch.languageStyle, ap.languageStyle)]

\* the marker of the settings button and of the chapter tab
hasChapterOverrides(ch) ==
  /\ ch # NONE
  /\ (Truthy(ch.genre) \/ Truthy(ch.maturityLevel)
        \/ Truthy(ch.languageStyle) \/ ch.settings # NONE)

\* the value a chapter-level settings control shows for a field
ShownSetting(ap, ch, key) ==
  IF ch.settings # NONE THEN ch.settings[key] ELSE ap.settings[key]

\* the value a chapter-level select shows
ShownOverride(ap, ch, key) == Nullish(ch[key], ap[key])

\* updateChapterOverride(key, value): a copy of the active chapter object
\* with the key set takes the chapter's place in a copy of the chapter array
updateChapterOverride(key, value) ==
  /\ activeProject # NONE
  /\ activeChapterIndex < Len(activeProject.chapters)
  /\ CanAlloc(heap, 1)
  /\ LET a == activeProject.chapters[activeChapterIndex + 1]
         b == AllocAddrs(heap, 1)[1]
         hp == [heap EXCEPT ![b] = [heap[a] EXCEPT ![key] = value]]
         up == [activeProject EXCEPT !.chapters[activeChapterIndex + 1] = b]
     IN /\ SetActive(up, TRUE, hp, lastSavedRef)
        /\ activeAlias' = 0
        /\ UNCHANGED <<storage, clock, mounted, crashed, savedProjects,
                       activeChapterIndex, isGenerating, isContinuing, error,
                       idleTimers, errorTimers, saving, pending>>
        /\ SetHeap(hp)

\* a chapter-level select of the dialog changes
UpdateChapterOverride ==
  /\ Ready
  /\ UNCHANGED audio
  /\ \E key \in OverrideKeys : \E value \in OverrideValues(key) :
       /\ CurrentChapter(activeProject, activeChapterIndex, heap) # NONE
       /\ value # ShownOverride(activeProject,
                    CurrentChapter(activeProject, activeChapterIndex, heap), key)
       /\ updateChapterOverride(key, value)

\* the override that starts from the project's settings every time
NewSettingsFromProject(ap, ch, key, value) ==
  [ap.settings EXCEPT ![key] = value]

\* newSettings of updateChapterSetting
NewSettings(ap, ch, key, value) ==
  [OrObject(ch.settings, ap.settings) EXCEPT ![key] = value]

\* a chapter-level settings control of the dialog changes:
\* updateChapterSetting(key, value)
UpdateChapterSetting ==
  /\ Ready
  /\ UNCHANGED audio
  /\ \E key \in SettingKeys : \E value \in SettingValues(key) :
       LET ch == CurrentChapter(activeProject, activeChapterIndex, heap)
       IN /\ ch # NONE
          /\ value # ShownSetting(activeProject, ch, key)
          /\ updateChapterOverride("settings",
                                   NewSettings(activeProject, ch, key, value))

\* the copy that keeps the settings override
RestWithSettings(ch) ==
  [ch EXCEPT !.genre = UNDEF, !.maturityLevel = UNDEF, !.languageStyle = UNDEF]

\* rest of clearChapterOverrides: the chapter without its four override keys
Rest(ch) ==
  [ch EXCEPT !.genre = UNDEF, !.maturityLevel = UNDEF,
             !.languageStyle = UNDEF, !.settings = NONE]

\* "Reset Chapter Settings"
ClearChapterOverrides ==
  /\ Ready
  /\ UNCHANGED audio
  /\ activeProject # NONE
  /\ activeChapterIndex < Len(activeProject.chapters)
  /\ CanAlloc(heap, 1)
  /\ LET a == activeProject.chapters[activeChapterIndex + 1]
         b == AllocAddrs(heap, 1)[1]
         hp == [heap EXCEPT ![b] = Rest(heap[a])]
         up == [activeProject EXCEPT !.chapters[activeChapterIndex + 1] = b]
     IN /\ SetActive(up, TRUE, hp, lastSavedRef)
        /\ activeAlias' = 0
        /\ UNCHANGED <<storage, clock, mounted, crashed, savedProjects,
                       activeChapterIndex, isGenerating, isContinuing, error,
                       idleTimers, errorTimers, saving, pending>>
        /\ SetHeap(hp)

\* the project-level genre select changes
EditProjectGenre ==
  /\ Ready
  /\ UNCHANGED audio
  /\ activeProject # NONE
  /\ \E v \in ProjectGenres \ {activeProject.genre} :
       SetActive([activeProject EXCEPT !.genre = v], TRUE, heap, lastSavedRef)
  /\ activeAlias' = 0
  /\ UNCHANGED <<storage, clock, mounted, crashed, savedProjects,
                 activeChapterIndex, isGenerating, isContinuing, error,
                 idleTimers, errorTimers, saving, pending>>
  /\ SetHeap(heap)

\* a project-level settings control changes
EditProjectSetting ==
  /\ Ready
  /\ UNCHANGED audio
  /\ activeProject # NONE
  /\ \E key \in SettingKeys :
       \E value \in SettingValues(key) \ {activeProject.settings[key]} :
         SetActive([activeProject EXCEPT !.settings[key] = value], TRUE, heap,
                   lastSavedRef)
  /\ activeAlias' = 0
  /\ UNCHANGED <<storage, clock, mounted, crashed, savedProjects,
                 activeChapterIndex, isGenerating, isContinuing, error,
                 idleTimers, errorTimers, saving, pending>>
  /\ SetHeap(heap)

\* ------------------------------------------------------------ service calls
\* the isGenerating prop the Editor receives, tested by onRewriteClick
EditorBusy(gen, cont) == gen \/ cont

\* a guard that tests only the handler's own flag
OwnFlagOnlyGenerate(ap, gen, cont) == ~(ap = NONE \/ gen)
OwnFlagOnlyContinue(ap, gen, cont) == ~(ap = NONE \/ cont)

\* the first guard of each handler
CanGenerate(ap, gen, cont) == ~(ap = NONE \/ gen \/ cont)
CanContinue(ap, gen, cont) == ~(ap = NONE \/ gen \/ cont)
CanRewrite(ap, gen, cont) == ~(ap = NONE \/ gen \/ cont)

Markup == {SP, GT, BR}

\* currentText(html).trim() is empty: the content holds no text run
IsBlank(content) == \A i \in 1..Len(content) : content[i] \in Markup

RECURSIVE TrimLeft(_)
TrimLeft(c) == IF c # <<>> /\ Head(c) = SP THEN TrimLeft(Tail(c)) ELSE c

RECURSIVE TrimRight(_)
TrimRight(c) ==
  IF c # <<>> /\ c[Len(c)] = SP THEN TrimRight(SubSeq(c, 1, Len(c) - 1)) ELSE c

\* String.prototype.trim
Trim(c) == TrimLeft(TrimRight(c))

\* lastPart.endsWith('</p>') || lastPart.endsWith('>')
EndsWithTag(c) == c # <<>> /\ c[Len(c)] \in {GT, BR}

\* a continuation that overwrites the chapter with the returned text
Overwritten(lastPart, result) == Trim(result)

\* the content handleContinue assigns
Continued(lastPart, result) ==
  Trim(lastPart) \o (IF EndsWithTag(lastPart) THEN <<>> ELSE <<BR>>)
                 \o Trim(result)

NeedTextMsg == [msg |-> "write some text first", type |-> "error"]
GenerateFailedMsg == [msg |-> "generation failed", type |-> "error"]
ContinueFailedMsg == [msg |-> "continuation failed", type |-> "error"]
RewriteFailedMsg == [msg |-> "rewrite failed", type |-> "error"]

\* what a pending call can come back with: an exception or a text
Outcomes == {[ok |-> FALSE, text |-> <<>>]}
            \cup {[ok |-> TRUE, text |-> r] : r \in ResultTexts}

\* what a handler passes to the service: rewriteContent gets the genre only
CallArgs(kind, ap, ch) ==
  IF kind = "rewrite" THEN [genre |-> Or(ch.genre, ap.genre)]
  ELSE GenerationArgs(ap, ch)

\* an outstanding call: its arguments and the activeProject and
\* activeChapterIndex its continuation closes over
Call(kind) ==
  [kind |-> kind, proj |-> activeProject, idx |-> activeChapterIndex,
   args |-> CallArgs(kind, activeProject,
                     CurrentChapter(activeProject, activeChapterIndex, heap))]

NoTrigger ==
  UNCHANGED <<storage, clock, mounted, crashed, heap, savedProjects,
              activeProject, activeAlias, activeChapterIndex, isGenerating,
              isContinuing, error, saveStatus, lastSavedRef, autoSaveTimerRef,
              timers, hasCleanup, idleTimers, errorTimers, saving, pending>>

\* handleGenerate up to the await
HandleGenerate ==
  /\ Ready
  /\ UNCHANGED audio
  /\ IF ~CanGenerate(activeProject, isGenerating, isContinuing)
        \/ CurrentChapter(activeProject, activeChapterIndex, heap) = NONE
     THEN NoTrigger
     ELSE /\ isGenerating' = TRUE
          /\ error' = NONE
          /\ pending' = pending \cup {Call("generate")}
          /\ UNCHANGED <<storage, clock, mounted, crashed, savedProjects,
                         activeProject, activeAlias, activeChapterIndex,
                         isContinuing, saveStatus, lastSavedRef,
                         autoSaveTimerRef, timers, hasCleanup, idleTimers,
                         errorTimers, saving>>
          /\ SetHeap(heap)

\* handleContinue up to the await
HandleContinue ==
  /\ Ready
  /\ UNCHANGED audio
  /\ IF ~CanContinue(activeProject, isGenerating, isContinuing)
     THEN NoTrigger
     ELSE LET ch == CurrentChapter(activeProject, activeChapterIndex, heap)
          IN IF ch = NONE \/ IsBlank(ch.content)
             THEN /\ error' = NeedTextMsg
                  /\ UNCHANGED <<storage, clock, mounted, crashed, heap,
                                 savedProjects, activeProject, activeAlias,
                                 activeChapterIndex, isGenerating,
                                 isContinuing, saveStatus, lastSavedRef,
                                 autoSaveTimerRef, timers, hasCleanup,
                                 idleTimers, errorTimers, saving, pending>>
             ELSE /\ isContinuing' = TRUE
                  /\ error' = NONE
                  /\ pending' = pending \cup {Call("continue")}
                  /\ UNCHANGED <<storage, clock, mounted, crashed,
                                 savedProjects, activeProject, activeAlias,
                                 activeChapterIndex, isGenerating, saveStatus,
                                 lastSavedRef, autoSaveTimerRef, timers,
                                 hasCleanup, idleTimers, errorTimers, saving>>
                  /\ SetHeap(heap)

\* Editor.onRewriteClick with a non-blank instruction, then handleRewrite up
\* to the await; the Editor's isGenerating prop is isGenerating || isContinuing
HandleRewrite ==
  /\ Ready
  /\ UNCHANGED audio
  /\ IF EditorBusy(isGenerating, isContinuing)
        \/ ~CanRewrite(activeProject, isGenerating, isContinuing)
        \/ CurrentChapter(activeProject, activeChapterIndex, heap) = NONE
     THEN NoTrigger
     ELSE /\ isGenerating' = TRUE
          /\ pending' = pending \cup {Call("rewrite")}
          /\ UNCHANGED <<storage, clock, mounted, crashed, savedProjects,
                         activeProject, activeAlias, activeChapterIndex,
                         isContinuing, error, saveStatus, lastSavedRef,
                         autoSaveTimerRef, timers, hasCleanup, idleTimers,
                         errorTimers, saving>>
          /\ SetHeap(heap)

\* the assignment made for every returned value, the empty one included
AppliesUnchecked(out) == out.ok

\* the call returned and "if (result)" lets the assignment happen
Applies(out) == out.ok /\ out.text # <<>>

\* the content the continuation of a call assigns to its chapter, given
\* the content the chapter object holds when the call returns
ResultContent(kind, old, out) ==
  IF kind = "continue" THEN Continued(old, out.text) ELSE out.text

FailureMsg(kind) ==
  IF kind = "generate" THEN GenerateFailedMsg
  ELSE IF kind = "continue" THEN ContinueFailedMsg
  ELSE RewriteFailedMsg

\* The code after the await of handleGenerate / handleContinue /
\* handleRewrite.  activeProject and activeChapterIndex are the values the
\* handler closed over when it was triggered.
ResponseWith(c, out) ==
  LET a == c.proj.chapters[c.idx + 1]
      hp == IF Applies(out)
            THEN [heap EXCEPT ![a].content =
                    ResultContent(c.kind, heap[a].content, out)]
            ELSE heap
  IN /\ Ready
     /\ UNCHANGED audio
     /\ c \in pending
     /\ Len(hp[a].content) <= MaxLen
     /\ pending' = pending \ {c}
     /\ IF Applies(out)
        THEN /\ SetActive(c.proj, TRUE, hp, lastSavedRef)
             /\ activeAlias' = 0
        ELSE /\ SetActive(activeProject, FALSE, heap, lastSavedRef)
             /\ activeAlias' = activeAlias
     /\ error' = IF out.ok THEN error ELSE FailureMsg(c.kind)
     /\ isGenerating' = IF c.kind = "continue" THEN isGenerating ELSE FALSE
     /\ isContinuing' = IF c.kind = "continue" THEN FALSE ELSE isContinuing
     /\ UNCHANGED <<storage, clock, mounted, crashed, savedProjects,
                    activeChapterIndex, idleTimers, errorTimers, saving>>
     /\ SetHeap(hp)

Response == \E c \in pending : \E out \in Outcomes : ResponseWith(c, out)

\* the close button of the message bar
DismissError ==
  /\ Ready
  /\ UNCHANGED audio
  /\ error # NONE
  /\ error' = NONE
  /\ UNCHANGED <<storage, clock, mounted, crashed, heap, savedProjects,
                 activeProject, activeAlias, activeChapterIndex, isGenerating,
                 isContinuing, saveStatus, lastSavedRef, autoSaveTimerRef,
                 timers, hasCleanup, idleTimers, errorTimers, saving, pending>>

\* ----------------------------------------------------------------- playback
\* every state variable but the Editor's playback
app == <<storage, clock, mounted, crashed, heap, savedProjects,
         activeProject, activeAlias, activeChapterIndex, isGenerating,
         isContinuing, error, saveStatus, lastSavedRef, autoSaveTimerRef,
         timers, hasCleanup, idleTimers, errorTimers, saving, pending>>

\* the sources that are producing sound
Playing(src) == {n \in SourceIds : src[n] = "playing"}

\* ctx.createBufferSource(): a node that has not been used
NewSource(src) ==
  CHOOSE n \in SourceIds :
    src[n] = "none" /\ \A k \in 1..(n - 1) : src[k] # "none"

\* source.stop(): a playing source falls silent and its ended event is due
Stop(src, n) ==
  IF n # 0 /\ src[n] = "playing" THEN [src EXCEPT ![n] = "ended"] ELSE src

\* the play/stop button: handleListen up to the await
HandleListen ==
  /\ Ready
  /\ CurrentChapter(activeProject, activeChapterIndex, heap) # NONE
  /\ UNCHANGED app
  /\ IF isPlaying
     THEN /\ sources' = Stop(sources, currentSourceRef)
          /\ isPlaying' = FALSE
          /\ UNCHANGED <<currentSourceRef, speechCalls>>
     ELSE IF IsBlank(CurrentChapter(activeProject, activeChapterIndex,
                                    heap).content)
          THEN UNCHANGED audio
          ELSE /\ speechCalls < MaxSpeech
               /\ isPlaying' = TRUE
               /\ speechCalls' = speechCalls + 1
               /\ UNCHANGED <<currentSourceRef, sources>>

\* what generateSpeech can come back with
SpeechOutcomes == {"audio", "empty", "throws"}

\* handleListen after the await: the decoded buffer is started, or the
\* flag is cleared when there is no audio or an exception
SpeechResponseWith(out) ==
  /\ mounted /\ ~crashed
  /\ speechCalls > 0
  /\ speechCalls' = speechCalls - 1
  /\ UNCHANGED app
  /\ IF out = "audio"
     THEN /\ \E n \in SourceIds : sources[n] = "none"
          /\ sources' = [sources EXCEPT ![NewSource(sources)] = "playing"]
          /\ currentSourceRef' = NewSource(sources)
          /\ isPlaying' = isPlaying
     ELSE /\ isPlaying' = FALSE
          /\ UNCHANGED <<currentSourceRef, sources>>

SpeechResponse == \E out \in SpeechOutcomes : SpeechResponseWith(out)

\* a source has played its buffer to the end
PlaybackEnds ==
  /\ mounted /\ ~crashed
  /\ \E n \in Playing(sources) : sources' = [sources EXCEPT ![n] = "ended"]
  /\ UNCHANGED app
  /\ UNCHANGED <<isPlaying, currentSourceRef, speechCalls>>

\* source.onended = () => setIsPlaying(false)
SourceEnded ==
  /\ mounted /\ ~crashed
  /\ \E n \in SourceIds :
       /\ sources[n] = "ended"
       /\ sources' = [sources EXCEPT ![n] = "done"]
  /\ isPlaying' = FALSE
  /\ UNCHANGED app
  /\ UNCHANGED <<currentSourceRef, speechCalls>>

\* --------------------------------------------------------- specifications
\* the editing session with its persistence: edits, saves, timers, library
Next ==
  \/ Mount
  \/ EditTitle
  \/ EditContent
  \/ ManualSave
  \/ AutoSaveFire
  \/ SaveUpdater
  \/ IdleFire
  \/ ErrorClearFire
  \/ LoadProject
  \/ CreateNewProject
  \/ DeleteProject

Spec == Init /\ [][Next]_vars

\* the editing session with its service calls: edits, chapters, triggers
\* and responses; nothing is written to storage
NextGen ==
  \/ Mount
  \/ EditContent
  \/ LoadProject
  \/ AddNewChapter
  \/ SelectChapter
  \/ HandleGenerate
  \/ HandleContinue
  \/ HandleRewrite
  \/ Response
  \/ DismissError

SpecGen == Init /\ [][NextGen]_vars

\* the settings dialog: project defaults and chapter overrides
NextOvr ==
  \/ Mount
  \/ AddNewChapter
  \/ SelectChapter
  \/ EditProjectSetting
  \/ UpdateChapterOverride
  \/ UpdateChapterSetting
  \/ ClearChapterOverrides

SpecOvr == Init /\ [][NextOvr]_vars

\* chapter overrides and the calls that read them
NextArgs ==
  \/ Mount
  \/ EditProjectGenre
  \/ UpdateChapterOverride
  \/ UpdateChapterSetting
  \/ HandleGenerate
  \/ HandleContinue
  \/ Response

SpecArgs == Init /\ [][NextArgs]_vars

\* the chapter list of a stored project: select, add, delete, write
NextChap ==
  \/ Mount
  \/ SelectChapter
  \/ AddNewChapter
  \/ DeleteChapter
  \/ EditContent
  \/ DismissError

SpecChap == InitChap /\ [][NextChap]_vars

\* sessions over one store: projects with chapter overrides are changed,
\* saved and loaded again
NextStore ==
  \/ Mount
  \/ Reload
  \/ CreateNewProject
  \/ UpdateChapterSetting
  \/ ManualSave
  \/ SaveUpdater

SpecStore == InitStore /\ [][NextStore]_vars

\* continuing the chapters of a stored project
NextCont ==
  \/ Mount
  \/ SelectChapter
  \/ EditContent
  \/ HandleContinue
  \/ Response

SpecCont == InitCont /\ [][NextCont]_vars

\* deleting stored projects while service calls are outstanding; no project
\* is created, so a project that is in neither the saved list nor storage
\* is one that has been deleted
NextDel ==
  \/ Mount
  \/ EditContent
  \/ HandleGenerate
  \/ Response
  \/ DeleteProject
  \/ AutoSaveFire
  \/ SaveUpdater

SpecDel == Init /\ [][NextDel]_vars

\* listening to the chapter that is being written
NextAudio ==
  \/ Mount
  \/ EditContent
  \/ HandleListen
  \/ SpeechResponse
  \/ PlaybackEnds
  \/ SourceEnded

SpecAudio == Init /\ [][NextAudio]_vars

\* sessions in which every armed timer fires and every write succeeds, and
\* no project is deleted
NextLive ==
  \/ Mount
  \/ EditTitle
  \/ EditContent
  \/ AutoSaveFire
  \/ SaveSucceeds
  \/ LoadProject
  \/ CreateNewProject

SpecLive ==
  /\ Init
  /\ [][NextLive]_vars
  /\ WF_vars(Mount)
  /\ WF_vars(AutoSaveFire)
  /\ WF_vars(SaveSucceeds)

\* ------------------------------------------------------------------ claims
\* a step in which the user changes the active project
Mutation == EditTitle \/ EditContent

\* the one timer the auto-save effect arms for the active project
ArmedTimer(ap, ref) == {[id |-> ref, proj |-> ap]}

\* C2: a mutation that leaves the active project's serialized form different
\* from the baseline sets saveStatus to 'unsaved' and leaves exactly the newly
\* armed timer pending; no reachable state has two pending autosave timers.
C2_SingleTimer ==
  /\ [](Cardinality(timers) <= 1)
  /\ [][(Mutation /\ Serialize(activeProject', heap') # lastSavedRef')
        => (/\ saveStatus' = "unsaved"
            /\ timers' = ArmedTimer(activeProject', autoSaveTimerRef')
            /\ autoSaveTimerRef' # autoSaveTimerRef)]_vars

\* a second timer has been armed in place of a first one, after two edits
C2_Witness ==
  /\ saveStatus = "unsaved"
  /\ autoSaveTimerRef = 2
  /\ timers = ArmedTimer(activeProject, 2)
  /\ activeProject.title = Word(1)
  /\ heap[activeProject.chapters[1]].content = <<>>
  /\ savedProjects # <<>>

\* the records of the stored collection that carry the given project id
StoredRecords(st, id) ==
  IF st.kind = "array" THEN SelectSeq(st.items, LAMBDA r : r.id = id) ELSE <<>>

C3_StatusSequence ==
  /\ [][AutoSaveFire => (saveStatus = "unsaved" /\ saveStatus' = "saving")]_vars
  /\ [][(SaveUpdater /\ saving.isAuto /\ ~crashed')
        => (/\ saveStatus = "saving"
            /\ saveStatus' = "saved"
            /\ StoredRecords(storage', activeProject.id)
                 = <<Serialize(activeProject, heap)>>
            /\ lastSavedRef' = Serialize(activeProject', heap'))]_vars

\* C4 as stated: a manual save writes the active project at once and leaves
\* no autosave timer pending.
C4_ManualSaveCancelsTimer ==
  [][(SaveUpdater /\ ~saving.isAuto /\ ~crashed')
     => (/\ StoredRecords(storage', activeProject.id)
              = <<Serialize(activeProject, heap)>>
         /\ timers' = {})]_vars

\* C5 as stated: after loadProject or createNewProject the baseline is the
\* new active project's serialized form, saveStatus is 'idle' and no
\* autosave timer is pending.
C5_SwitchResets ==
  [][(LoadProject \/ CreateNewProject)
     => (/\ lastSavedRef' = Serialize(activeProject', heap')
         /\ saveStatus' = "idle"
         /\ timers' = {})]_vars

C7_FailureSurfaced ==
  (saveStatus = "saving" /\ saving = NONE)
    => (~crashed /\ error # NONE /\ error.type = "error")

\* the chapter a call was triggered for
CallChapter(c) == c.proj.chapters[c.idx + 1]

\* C8: while a call is outstanding no trigger of generate, continue or
\* rewrite changes anything; the response that arrives belongs to the one
\* call that was accepted and the chapter content is set from its result.
C8_SecondTriggerIgnored ==
  /\ [][((HandleGenerate \/ HandleContinue \/ HandleRewrite) /\ pending # {})
        => UNCHANGED vars]_vars
  /\ [][\A c \in pending : \A out \in Outcomes :
          (ResponseWith(c, out) /\ Applies(out))
            => (/\ pending = {c}
                /\ pending' = {}
                /\ heap'[CallChapter(c)].content
                     = ResultContent(c.kind, heap[CallChapter(c)].content, out))]_vars

\* a generation came back and its text is the chapter's content
C8_Witness ==
  /\ pending = {}
  /\ ~isGenerating /\ ~isContinuing
  /\ activeProject # NONE
  /\ heap[activeProject.chapters[1]].content = <<Reply(1)>>

\* C9: at most one call is outstanding, and while one is, a flag that every
\* handler tests is set.
C9_OneCallOutstanding ==
  /\ Cardinality(pending) <= 1
  /\ pending # {} => (isGenerating \/ isContinuing)

\* a continuation is outstanding
C9_Witness ==
  /\ isContinuing
  /\ \E c \in pending : c.kind = "continue"

\* C10: a call that fails or returns no text leaves the content of every
\* chapter of the active and of the saved projects as it was, clears both
\* flags, and on failure sets the error message.
C10_FailureLeavesContent ==
  [][\A c \in pending : \A out \in Outcomes :
       (ResponseWith(c, out) /\ (~out.ok \/ out.text = <<>>))
         => (/\ activeProject' = activeProject
             /\ activeProject # NONE
                  => Serialize(activeProject', heap') = Serialize(activeProject, heap)
             /\ SerializeAll(savedProjects', heap') = SerializeAll(savedProjects, heap)
             /\ ~isGenerating' /\ ~isContinuing'
             /\ ~out.ok => error' = FailureMsg(c.kind))]_vars

\* a generation failed on a chapter that holds text
C10_Witness ==
  /\ error = GenerateFailedMsg
  /\ pending = {}
  /\ ~isGenerating /\ ~isContinuing
  /\ activeProject # NONE
  /\ heap[activeProject.chapters[activeChapterIndex + 1]].content = <<Word(1)>>

\* the chapter objects of the active project, by 1-based position
ActiveChapter(i) == heap[activeProject.chapters[i]]

\* the value a call must get for a key: the chapter's when the chapter has
\* the key, the project's otherwise
Expected(over, absent, default) == IF over # absent THEN over ELSE default

\* C11: the genre, maturity level, language style and settings object that
\* handleGenerate and handleContinue pass to the service are the chapter's
\* override where the chapter has the field and the project's value where it
\* has not, the settings as a whole object.
C11_EffectiveArgs ==
  [][(HandleGenerate \/ HandleContinue)
     => \A c \in pending' \ pending :
          LET p == c.proj
              ch == heap[CallChapter(c)]
          IN /\ p = activeProject
             /\ c.args.genre = Expected(ch.genre, UNDEF, p.genre)
             /\ c.args.maturity = Expected(ch.maturityLevel, UNDEF, p.maturityLevel)
             /\ c.args.language = Expected(ch.languageStyle, UNDEF, p.languageStyle)
             /\ c.args.settings = Expected(ch.settings, NONE, p.settings)]_vars

\* a continuation was called with the chapter's genre and settings, which
\* differ from the project's, and with the project's maturity level
C11_Witness ==
  \E c \in pending :
    /\ c.kind = "continue"
    /\ heap[CallChapter(c)].genre = "Thriller"
    /\ c.proj.genre = "Romance"
    /\ c.args.genre = "Thriller"
    /\ heap[CallChapter(c)].settings # NONE
    /\ c.args.settings.creativity = 50
    /\ c.proj.settings.creativity = 85
    /\ heap[CallChapter(c)].maturityLevel = UNDEF
    /\ c.args.maturity = "Adult"

\* C12: a chapter's settings override is complete and is the chapter's
\* effective settings in every field; a change of a project-level settings
\* field leaves the effective settings of every chapter that has an override
\* as they were.
C12_WholeObjectFallback ==
  /\ [](activeProject # NONE
          => \A i \in 1..Len(activeProject.chapters) :
               ActiveChapter(i).settings # NONE
                 => /\ DOMAIN ActiveChapter(i).settings = DOMAIN DEFAULT_SETTINGS
                    /\ \A k \in DOMAIN DEFAULT_SETTINGS :
                         GenerationArgs(activeProject, ActiveChapter(i)).settings[k]
                           = ActiveChapter(i).settings[k])
  /\ [][EditProjectSetting
        => /\ activeProject'.settings # activeProject.settings
           /\ \A i \in 1..Len(activeProject.chapters) :
                ActiveChapter(i).settings # NONE
                  => GenerationArgs(activeProject', heap'[activeProject'.chapters[i]]).settings
                       = GenerationArgs(activeProject, ActiveChapter(i)).settings]_vars

\* the active chapter has an override that differs from the project's
\* settings in both fields a user moves
C12_Witness ==
  /\ activeProject # NONE
  /\ ActiveChapter(activeChapterIndex + 1).settings # NONE
  /\ ActiveChapter(activeChapterIndex + 1).settings.creativity = 50
  /\ ActiveChapter(activeChapterIndex + 1).settings.tone = "Passionate and Descriptive"
  /\ activeProject.settings.creativity = 85
  /\ activeProject.settings.tone = "Dark and Thrilling"

\* the settings object updateChapterSetting starts from
BaseSettings(ap, ch) == IF ch.settings = NONE THEN ap.settings ELSE ch.settings

\* C13: updateChapterSetting gives the active chapter a complete settings
\* object that differs in exactly one field from the project's settings when
\* the chapter had no override, and from the chapter's override when it had
\* one; the chapter then shows the new value of that field and counts as
\* having overrides; nothing else of the chapter or of the project changes.
C13_UpdateChapterSetting ==
  [][UpdateChapterSetting
     => LET old == ActiveChapter(activeChapterIndex + 1)
            new == heap'[activeProject'.chapters[activeChapterIndex + 1]]
            base == BaseSettings(activeProject, old)
        IN /\ DOMAIN new.settings = DOMAIN DEFAULT_SETTINGS
           /\ \E key \in SettingKeys :
                /\ new.settings[key] # base[key]
                /\ ShownSetting(activeProject', new, key) = new.settings[key]
                /\ \A k \in DOMAIN base : k # key => new.settings[k] = base[k]
           /\ hasChapterOverrides(new)
           /\ new = [old EXCEPT !.settings = new.settings]
           /\ activeProject'.settings = activeProject.settings
           /\ activeChapterIndex' = activeChapterIndex]_vars

\* an override whose two fields were set one after the other at chapter
\* level, over unchanged project settings
C13_Witness ==
  /\ activeProject # NONE
  /\ ActiveChapter(activeChapterIndex + 1).settings # NONE
  /\ ActiveChapter(activeChapterIndex + 1).settings.creativity = 50
  /\ ActiveChapter(activeChapterIndex + 1).settings.tone = "Dark and Thrilling"
  /\ ActiveChapter(activeChapterIndex + 1).settings.length = "Long"
  /\ activeProject.settings = DEFAULT_SETTINGS

\* C14: clearChapterOverrides leaves the active chapter with its id, title
\* and content and without genre, maturityLevel, languageStyle and settings,
\* so that it has no overrides and every effective value is the project's;
\* the other chapters and the project's own fields are untouched; applied to
\* a chapter without overrides it leaves the project's serialized form as it
\* is, so a second application gives what the first gave.
C14_ClearIdempotent ==
  [][ClearChapterOverrides
     => LET old == ActiveChapter(activeChapterIndex + 1)
            new == heap'[activeProject'.chapters[activeChapterIndex + 1]]
        IN /\ new.id = old.id /\ new.title = old.title
           /\ new.content = old.content
           /\ new.genre = UNDEF /\ new.maturityLevel = UNDEF
           /\ new.languageStyle = UNDEF /\ new.settings = NONE
           /\ ~hasChapterOverrides(new)
           /\ GenerationArgs(activeProject', new)
                = [genre |-> activeProject.genre,
                   settings |-> activeProject.settings,
                   maturity |-> activeProject.maturityLevel,
                   language |-> activeProject.languageStyle]
           /\ Rest(new) = new
           /\ ~hasChapterOverrides(old)
                => Serialize(activeProject', heap') = Serialize(activeProject, heap)
           /\ \A i \in 1..Len(activeProject.chapters) :
                i # activeChapterIndex + 1
                  => /\ activeProject'.chapters[i] = activeProject.chapters[i]
                     /\ heap'[activeProject.chapters[i]] = ActiveChapter(i)
           /\ [activeProject' EXCEPT !.chapters = <<>>]
                = [activeProject EXCEPT !.chapters = <<>>]
           /\ activeChapterIndex' = activeChapterIndex]_vars

\* the first chapter is a copy without overrides of the stored chapter, next
\* to a second chapter that keeps its genre and settings overrides
C14_Witness ==
  /\ activeProject # NONE
  /\ Len(activeProject.chapters) = 2
  /\ activeChapterIndex = 0
  /\ savedProjects # <<>>
  /\ activeProject.chapters[1] # savedProjects[1].chapters[1]
  /\ ~hasChapterOverrides(ActiveChapter(1))
  /\ ActiveChapter(2).genre = "Thriller"
  /\ ActiveChapter(2).settings # NONE

\* C15: deleteChapter on a project with one chapter changes neither the
\* project nor the active index and sets an error message; the active
\* project never has zero chapters.
C15_LastChapterKept ==
  /\ [](activeProject # NONE => Len(activeProject.chapters) >= 1)
  /\ [][(DeleteChapter /\ Len(activeProject.chapters) = 1)
        => (/\ activeProject' = activeProject
            /\ heap' = heap
            /\ activeChapterIndex' = activeChapterIndex
            /\ error' # NONE
            /\ error'.type = "error")]_vars

\* the deletion of the only chapter left has been refused
C15_Witness ==
  /\ error = LastChapterMsg
  /\ activeProject # NONE
  /\ Len(activeProject.chapters) = 1
  /\ Len(savedProjects[1].chapters) = MaxChapters + 1

\* C16: deleting the active chapter at index i of a project with two or
\* more chapters moves the active index to i - 1, or leaves it 0 when i = 0,
\* and takes exactly the chapter at i out of the sequence, the others
\* keeping their order and their objects.
C16_DeleteActive ==
  [][\A i \in 0..(MaxChapters + 1) :
       (DeleteChapterAt(i) /\ i = activeChapterIndex
          /\ Len(activeProject.chapters) >= 2)
         => (/\ activeChapterIndex' = IF i > 0 THEN i - 1 ELSE 0
             /\ Len(activeProject'.chapters) = Len(activeProject.chapters) - 1
             /\ \A j \in 1..Len(activeProject'.chapters) :
                  /\ activeProject'.chapters[j]
                       = activeProject.chapters[IF j <= i THEN j ELSE j + 1]
                  /\ heap'[activeProject'.chapters[j]]
                       = heap[activeProject'.chapters[j]])]_vars

\* the stored project has lost its last chapter and the chapter before it
\* is the active one
C16_Witness ==
  /\ activeProject # NONE
  /\ Len(activeProject.chapters) = MaxChapters
  /\ activeChapterIndex = MaxChapters - 1
  /\ \A j \in 1..MaxChapters : ActiveChapter(j).id = j
  /\ Len(savedProjects[1].chapters) = MaxChapters + 1

\* the serialized form of the project createNewProject builds under an id
PristineForm(id) == [NewProject(id, <<>>) EXCEPT !.chapters = <<NewChapter(1)>>]

\* the active project is a new project that storage has no record of and
\* whose baseline is its form at creation
Unstored ==
  /\ activeProject # NONE
  /\ lastSavedRef = PristineForm(activeProject.id)
  /\ StoredRecords(storage, activeProject.id) = <<>>

\* C17: createNewProject makes a project of one chapter with the first
\* chapter title and empty content and with the default settings active at
\* index 0, writes nothing and arms no timer; the first edit of the
\* chapter's content arms the timer without writing; when that timer fires
\* and the write succeeds, storage holds the project once, in front, with
\* the edited content in its first chapter.
C17_NewProjectStoredByAutosave ==
  /\ [][CreateNewProject
        => (/\ Serialize(activeProject', heap') = PristineForm(clock')
            /\ Len(activeProject'.chapters) = 1
            /\ heap'[activeProject'.chapters[1]].title = ChapterTitle(1)
            /\ heap'[activeProject'.chapters[1]].content = <<>>
            /\ activeProject'.settings = DEFAULT_SETTINGS
            /\ activeChapterIndex' = 0
            /\ storage' = storage
            /\ timers' = {}
            /\ Unstored')]_vars
  /\ [][(EditContent /\ Unstored /\ timers = {}
           /\ Serialize(activeProject, heap) = PristineForm(activeProject.id))
        => (/\ storage' = storage
            /\ timers' = ArmedTimer(activeProject', autoSaveTimerRef')
            /\ Unstored')]_vars
  /\ [][(AutoSaveFire /\ Unstored)
        => (/\ storage' = storage
            /\ saving' = [proj |-> activeProject, isAuto |-> TRUE]
            /\ Unstored')]_vars
  /\ [][(SaveUpdater /\ saving.isAuto /\ Unstored /\ ~crashed')
        => (/\ storage'.kind = "array"
            /\ StoredRecords(storage', activeProject.id)
                 = <<Serialize(activeProject, heap)>>
            /\ storage'.items[1].id = activeProject.id
            /\ storage'.items[1].chapters[1].content
                 = heap[activeProject.chapters[1]].content)]_vars

\* a project created in the session is stored in front of the stored
\* sample with the text typed into its chapter, and no save was asked for
C17_Witness ==
  /\ activeProject # NONE
  /\ activeProject.id = 2
  /\ storage.kind = "array"
  /\ Len(storage.items) = 2
  /\ storage.items[1] = [PristineForm(2) EXCEPT !.chapters[1].content = <<Word(1)>>]
  /\ storage.items[2].id = 1
  /\ Serialize(activeProject, heap) = storage.items[1]
  /\ saveStatus = "saved"
  /\ error = NONE /\ errorTimers = 0

\* C18 as stated: whenever the active project's serialized form differs
\* from the baseline, saveStatus is 'unsaved' or 'saving'.
C18_UnsavedShown ==
  (activeProject # NONE /\ Serialize(activeProject, heap) # lastSavedRef)
    => saveStatus \in {"unsaved", "saving"}

\* C19: when the stored value is missing, is not parseable or is not an
\* array, the load effect leaves an empty saved-projects list and no active
\* project, and no exception leaves it.
C19_BadStoreLoadsEmpty ==
  [][(Mount /\ storage.kind \in {"missing", "corrupt", "notarray"})
     => (/\ savedProjects' = <<>>
         /\ activeProject' = NONE
         /\ ~crashed'
         /\ mounted'
         /\ storage' = storage)]_vars

\* the session runs on a stored string that JSON.parse rejected
C19_Witness ==
  /\ mounted
  /\ ~crashed
  /\ storage = Corrupt
  /\ savedProjects = <<>>
  /\ activeProject = NONE

\* a project object with its chapter objects in place of their addresses
Deep(p, hp) == [p EXCEPT !.chapters = [i \in 1..Len(p.chapters) |-> hp[p.chapters[i]]]]

DeepAll(ps, hp) == [k \in 1..Len(ps) |-> Deep(ps[k], hp)]

\* the projects JSON.parse builds from a stored array
Loaded(items) ==
  DeepAll([k \in 1..Len(items) |-> ParsedProject(items, k)], ParsedHeap(items))

Without(seq, id) == SelectSeq(seq, LAMBDA r : r.id # id)

\* C21 as stated: deleteProject(id) takes exactly the record with that id
\* out of the stored collection and out of the saved list, every other
\* record staying as it was and where it was, and leaves no project active
\* when the deleted one was active.
C21_DeleteExact ==
  [][DeleteProject
     => \E id \in 1..MaxProjects :
          /\ Len(StoredRecords(storage, id)) = 1
          /\ storage'.kind = "array"
          /\ storage'.items = Without(storage.items, id)
          /\ savedProjects' = Without(savedProjects, id)
          /\ Len(savedProjects') = Len(savedProjects) - 1
          /\ activeProject' = IF activeProject # NONE /\ activeProject.id = id
                              THEN NONE ELSE activeProject]_vars

\* C22 as stated: when a call resolves with a text, the active project stays
\* the object it was, with its title, settings and chapter sequence, no
\* chapter object other than the one the call was triggered for changes, and
\* the active chapter index stays.
C22_ResponseFrame ==
  [][\A c \in pending : \A out \in Outcomes :
       (ResponseWith(c, out) /\ Applies(out))
         => (/\ [activeProject' EXCEPT !.chapters = <<>>]
                  = [activeProject EXCEPT !.chapters = <<>>]
             /\ activeProject'.chapters = activeProject.chapters
             /\ \A a \in Addr :
                  (a # CallChapter(c) /\ heap[a] # FREE /\ heap'[a] # FREE)
                    => heap'[a] = heap[a]
             /\ activeChapterIndex' = activeChapterIndex)]_vars

\* C23 as stated: while a project is active, activeChapterIndex is the
\* index of one of its chapters.
C23_IndexInRange ==
  activeProject # NONE
    => (activeChapterIndex >= 0
        /\ activeChapterIndex < Len(activeProject.chapters))

\* the stored collection has a record of project id with the given title
StoredTitle(id, t) ==
  \E k \in 1..Len(StoredRecords(storage, id)) :
    StoredRecords(storage, id)[k].title = t

\* C24 as stated, for the title: a title typed into the active project is
\* eventually in the project's stored record, unless the project's title is
\* changed again (and then that later title is owed to storage).
C24_MutationStored ==
  \A id \in 1..MaxProjects : \A t \in UserTitles :
    (activeProject # NONE /\ activeProject.id = id /\ activeProject.title = t)
      ~> (StoredTitle(id, t)
            \/ (activeProject # NONE /\ activeProject.id = id
                  /\ activeProject.title # t))

\* the records of a store, none when the stored value is not an array
StoredItems(st) == IF st.kind = "array" THEN st.items ELSE <<>>

\* C25 as stated: a successful save replaces the record with the saved
\* project's id at its position, or prepends the project when there is none;
\* every other record, in the saved list and in storage, is left unchanged
\* and in the same relative order, and no id occurs twice.
C25_MergeById ==
  [][SaveSucceeds
     => LET id == saving.proj.id
            idx == FindIndex(savedProjects, id)
        IN /\ Without(savedProjects', id) = Without(savedProjects, id)
           /\ Len(SelectSeq(savedProjects', LAMBDA r : r.id = id)) = 1
           /\ savedProjects'[IF idx > 0 THEN idx ELSE 1] = saving.proj
           /\ storage'.kind = "array"
           /\ Len(StoredRecords(storage', id)) = 1
           /\ Without(storage'.items, id) = Without(StoredItems(storage), id)]_vars

\* C26 as stated: at startup with a stored project, the first stored project
\* becomes the active one with chapter index 0, it is not flagged 'unsaved',
\* and no write is scheduled before the user mutates it.
C26_StartupClean ==
  [][(Mount /\ StoredItems(storage) # <<>>)
     => (/\ activeProject' # NONE
         /\ activeProject'.id = storage.items[1].id
         /\ activeChapterIndex' = 0
         /\ saveStatus' # "unsaved"
         /\ timers' = {})]_vars

IsPrefix(p, c) == Len(p) <= Len(c) /\ SubSeq(c, 1, Len(p)) = p
IsSuffix(p, c) == Len(p) <= Len(c) /\ SubSeq(c, Len(c) - Len(p) + 1, Len(c)) = p

\* C27: handleContinue on a chapter whose plain text is blank sets the
\* message, issues no request and leaves isContinuing clear; a successful
\* continuation makes the chapter content the trimmed existing content
\* followed by the trimmed returned text, the two not overlapping.
C27_Continue ==
  /\ [][(/\ HandleContinue
         /\ CanContinue(activeProject, isGenerating, isContinuing)
         /\ LET ch == CurrentChapter(activeProject, activeChapterIndex, heap)
            IN ch = NONE \/ IsBlank(ch.content))
        => (/\ error' = NeedTextMsg
            /\ pending' = pending
            /\ isContinuing' = FALSE
            /\ heap' = heap
            /\ activeProject' = activeProject)]_vars
  /\ [][\A c \in pending : \A out \in Outcomes :
          (ResponseWith(c, out) /\ Applies(out) /\ c.kind = "continue")
            => LET old == heap[CallChapter(c)].content
                   new == heap'[CallChapter(c)].content
               IN /\ IsPrefix(Trim(old), new)
                  /\ IsSuffix(Trim(out.text), new)
                  /\ Len(new) >= Len(Trim(old)) + Len(Trim(out.text))]_vars

C27_Witness ==
  /\ activeProject # NONE
  /\ error = NeedTextMsg
  /\ pending = {}
  /\ ~isContinuing
  /\ activeChapterIndex = 1
  /\ ActiveChapter(1).content = <<Word(1), BR, Reply(1)>>
  /\ ActiveChapter(2).content = <<BR>>

\* project id is gone: it is not in storage, not in the saved list and not
\* the active project
Gone(id) ==
  /\ mounted
  /\ StoredRecords(storage, id) = <<>>
  /\ FindIndex(savedProjects, id) = 0
  /\ activeProject = NONE \/ activeProject.id # id

\* C28 as stated: once a project has been deleted, no record with its id is
\* written to storage again and it does not become the active project again,
\* whatever calls were outstanding when it was deleted.
C28_DeletedStaysDeleted ==
  [][\A id \in 1..MaxProjects :
       Gone(id) => (/\ StoredRecords(storage', id) = <<>>
                    /\ activeProject' = NONE \/ activeProject'.id # id)]_vars

\* C29 as stated: whenever saveStatus is 'unsaved', an auto-save timer is
\* pending.
C29_UnsavedHasTimer ==
  saveStatus = "unsaved" => timers # {}

\* C30 as stated: a source produces sound only while isPlaying is true, and
\* at most one source produces sound at a time.
C30_PlaybackGuarded ==
  /\ Playing(sources) # {} => isPlaying
  /\ Cardinality(Playing(sources)) <= 1

====
